---- MODULE Spec2Model ----
(***************************************************************************)
(* PathoAi API: the /analyze submission workflow with its daily per-tier   *)
(* usage quota (app/routers/analyze.py), the feedback and history          *)
(* handlers (app/routers/feedback.py, app/routers/history.py) and the      *)
(* process-wide MongoDB handle (app/db/mongo.py, app/main.py).             *)
(*                                                                         *)
(* Every request handler is a coroutine.  One action of this module is the *)
(* code that runs between two awaits: it starts with the completion of the *)
(* awaited store or file operation (whose effect on the store is atomic    *)
(* and happens in that step) and runs up to the next await or the          *)
(* response.  The store and the upload may fail; the outcome is an input   *)
(* of the action.                                                          *)
(***************************************************************************)
EXTENDS Integers, Sequences, FiniteSets, TLC

(* ------------------------------ bounds -------------------------------- *)
NReq == 2          \* request slots of /analyze (each serves one submission)
NDays == 2         \* calendar days the clock can show
MaxLimit == 1      \* largest jrLimit / srLimit of a UsageLimit document
OidBase == 9       \* the store's n-th generated ObjectId is OidBase + n

(* --------------------------- program constants ------------------------ *)
ObjectIdHexLen == 24   \* bson.ObjectId(str) takes exactly 24 hex characters

Reqs == 1..NReq
Days == 1..NDays
Models == {"JR", "SR"}

None == [tag |-> "None"]

(* ----------------------- bson.ObjectId <-> str ------------------------ *)
HexDigits == <<"0","1","2","3","4","5","6","7","8","9","a","b","c","d","e","f">>
HexUpper == <<"0","1","2","3","4","5","6","7","8","9","A","B","C","D","E","F">>

IsHexChar(c) == \E i \in 1..16 : HexDigits[i] = c \/ HexUpper[i] = c
HexVal(c) == (CHOOSE i \in 1..16 : HexDigits[i] = c \/ HexUpper[i] = c) - 1

RECURSIVE ToHex(_, _)
ToHex(n, len) ==
    IF len = 0 THEN <<>>
    ELSE Append(ToHex(n \div 16, len - 1), HexDigits[(n % 16) + 1])

\* the number the first k hex characters of s write
RECURSIVE FromHex(_, _)
FromHex(s, k) ==
    IF k = 0 THEN 0 ELSE 16 * FromHex(s, k - 1) + HexVal(s[k])

\* str(ObjectId): 24 lower-case hex characters
str_oid(oid) == ToHex(oid, ObjectIdHexLen)

\* variant: only the characters are checked, not the length
ObjectIdValid_any_length(s) == \A i \in 1..Len(s) : IsHexChar(s[i])

\* ObjectId(id) raises unless id is 24 hex characters (either case)
ObjectIdValid(s) == Len(s) = ObjectIdHexLen /\ \A i \in 1..Len(s) : IsHexChar(s[i])
ObjectId(s) == FromHex(s, Len(s))

(* ------------------------------- state -------------------------------- *)
VARIABLES
    mongo_client,   \* app/db/mongo.py global: "None" or "client"
    mongo_db,       \* app/db/mongo.py global: "None" or "db"
    app,            \* lifespan of the process: "starting", "running", "stopped"
    today,          \* date.today() of the server clock
    UsageLimit,     \* collection UsageLimit: date -> document or None
    Analysis,       \* collection Analysis: documents in insertion order
    pc,             \* per /analyze request: the await it is suspended at
    model,          \* per request: form field model
    today_str,      \* per request: local today_str of the quota function running
    analysis_doc,   \* per request: local analysis_doc
    response,       \* per request: the HTTP response sent, or None
    steps,          \* per request: workflow states passed, in order (history)
    adapter_calls,  \* per request: number of provider invocations (history)
    inc_applied,    \* per request: <<date, tier>> its $inc modified, or <<>> (history)
    inc_failed,     \* per request: its update_one raised (history)
    usage_at_submit,\* per request: today's UsageLimit document when submitted (history)
    used0,          \* the UsageLimit collection at start (history)
    request,        \* the last /feedback or /history request, or None; its field n
                    \* alternates, so that every request differs from the one before
    reply,          \* the response to request, or None
    fb_last         \* per identifier: feedback last submitted with success (history)

reqvars == <<pc, model, today_str, analysis_doc, response, steps,
             adapter_calls, inc_applied, inc_failed, usage_at_submit>>
fbvars == <<request, reply, fb_last>>
dbvars == <<mongo_client, mongo_db, app>>
vars == <<mongo_client, mongo_db, app, today, UsageLimit, Analysis, pc, model,
          today_str, analysis_doc, response, steps, adapter_calls, inc_applied,
          inc_failed, usage_at_submit, used0, request, reply, fb_last>>

(* --------------------------- app/db/mongo.py -------------------------- *)
connect_to_mongo ==
    IF mongo_client # "None"
    THEN UNCHANGED <<mongo_client, mongo_db>>
    ELSE mongo_client' = "client" /\ mongo_db' = "db"

close_mongo_connection ==
    /\ mongo_client' = "None"
    /\ UNCHANGED mongo_db

get_database == mongo_db

(* ------------------------------ responses ----------------------------- *)
\* main.py http_exception_handler: HTTPException -> {status: false, message}
HTTPException(status_code, detail) ==
    [code |-> status_code, status |-> FALSE, message |-> detail, data |-> None]

ApiResponse(msg, d) ==
    [code |-> 200, status |-> TRUE, message |-> msg, data |-> d]

(* ------------------------- quota: pure parts -------------------------- *)
\* variant: the limit itself is still admitted
LimitExceeded_strict(usage_doc, m) ==
    IF m = "JR" THEN usage_doc.jrUsed > usage_doc.jrLimit
    ELSE usage_doc.srUsed > usage_doc.srLimit

\* the comparison of check_and_get_usage_limit on a present document
LimitExceeded(usage_doc, m) ==
    IF m = "JR" THEN usage_doc.jrUsed >= usage_doc.jrLimit
    ELSE usage_doc.srUsed >= usage_doc.srLimit

\* f"Usage limit check failed: {str(exc)}" for the two exceptions of the try
AttributeErrorDetail ==
    "Usage limit check failed: 'NoneType' object has no attribute 'get'"
StoreErrorDetail == "Usage limit check failed: store error"

\* variant: an absent document means "uncapped"
QuotaOutcome_uncapped(usage_doc, m) ==
    IF usage_doc = None
    THEN None
    ELSE IF LimitExceeded(usage_doc, m)
         THEN HTTPException(429, m \o " model usage limit exceeded for today")
         ELSE None

\* outcome of check_and_get_usage_limit once find_one has returned usage_doc
QuotaOutcome(usage_doc, m) ==
    IF usage_doc = None
    THEN HTTPException(500, AttributeErrorDetail)   \* usage_doc.get on None
    ELSE IF LimitExceeded(usage_doc, m)
         THEN HTTPException(429, m \o " model usage limit exceeded for today")
         ELSE None

\* variant: the increment is applied only below the limit
IncDoc_clamped(usage_doc, m) ==
    IF m = "JR"
    THEN [usage_doc EXCEPT !.jrUsed = IF @ < usage_doc.jrLimit THEN @ + 1 ELSE @]
    ELSE [usage_doc EXCEPT !.srUsed = IF @ < usage_doc.srLimit THEN @ + 1 ELSE @]

\* variant: the branches increment each other's field
IncDoc_wrong_tier(usage_doc, m) ==
    IF m = "JR" THEN [usage_doc EXCEPT !.srUsed = @ + 1]
    ELSE [usage_doc EXCEPT !.jrUsed = @ + 1]

\* {"$inc": {"jrUsed": 1}} / {"$inc": {"srUsed": 1}} on one document
IncDoc(usage_doc, m) ==
    IF m = "JR" THEN [usage_doc EXCEPT !.jrUsed = @ + 1]
    ELSE [usage_doc EXCEPT !.srUsed = @ + 1]

\* variant: the filter never matches a document
UpdateUsage_unmatched(coll, d, m) == coll

\* collection.update_one({"date": d}, {"$inc": ...}): first match or nothing
UpdateUsage(coll, d, m) ==
    IF coll[d] = None THEN coll ELSE [coll EXCEPT ![d] = IncDoc(coll[d], m)]

(* ------------------------------- inputs ------------------------------- *)
NoValue == "None"      \* dict.get of a key the provider's JSON does not have

Images == {"jpeg-bytes"}
Organs == {"liver"}
Contexts == {"suspected cirrhosis"}

\* base64.b64encode(file_content).decode('utf-8')
b64encode(bytes) == <<"base64", bytes>>

\* what call_openai_analysis ("JR") and call_gemini_25_pro_analysis ("SR")
\* return after json.loads, read through result_data.get(...): a JSON
\* object with the four keys, and one that lacks a key
ProviderResult(m) ==
    IF m = "JR"
    THEN [observation |-> "obs", preliminaryDiagnosis |-> "dx",
          confidenceLevel |-> "High", disclaimer |-> "disc"]
    ELSE [observation |-> "obs", preliminaryDiagnosis |-> "dx",
          confidenceLevel |-> "Low", disclaimer |-> NoValue]

\* outcomes of the block analyze_slide runs after slideImage.read()
AnalyzeOutcomes == {"read_raises", "provider_raises", "ok"}

\* the UsageLimit collections the service can be started on: the operator
\* writes one document per date, with fresh counters, and may have left
\* out one date (absent = 0: none is left out)
InitialUsage ==
    { [d \in Days |->
          IF d # absent
          THEN [date |-> d, jrUsed |-> 0, srUsed |-> 0, jrLimit |-> jl, srLimit |-> sl]
          ELSE None] :
      absent \in 0..NDays, jl \in 0..MaxLimit, sl \in 0..MaxLimit }

(* -------------------------------- Init -------------------------------- *)
Init ==
    /\ mongo_client = "None"
    /\ mongo_db = "None"
    /\ app = "starting"
    /\ today = 1
    /\ UsageLimit \in InitialUsage
    /\ used0 = UsageLimit
    /\ Analysis = <<>>
    /\ pc = [r \in Reqs |-> "idle"]
    /\ model = [r \in Reqs |-> "None"]
    /\ today_str = [r \in Reqs |-> 0]
    /\ analysis_doc = [r \in Reqs |-> None]
    /\ response = [r \in Reqs |-> None]
    /\ steps = [r \in Reqs |-> <<>>]
    /\ adapter_calls = [r \in Reqs |-> 0]
    /\ inc_applied = [r \in Reqs |-> <<>>]
    /\ inc_failed = [r \in Reqs |-> FALSE]
    /\ usage_at_submit = [r \in Reqs |-> None]
    /\ request = None
    /\ reply = None
    /\ fb_last = <<>>

(* ---------------------------- app/main.py ----------------------------- *)
InFlight(r) == pc[r] \notin {"idle", "done"}

\* lifespan, before yield
Startup ==
    /\ app = "starting"
    /\ connect_to_mongo
    /\ app' = "running"
    /\ UNCHANGED <<today, UsageLimit, Analysis, reqvars, used0, fbvars>>

\* lifespan, after yield: the server has drained its requests
Shutdown ==
    /\ app = "running"
    /\ \A r \in Reqs : ~InFlight(r)
    /\ close_mongo_connection
    /\ app' = "stopped"
    /\ UNCHANGED <<today, UsageLimit, Analysis, reqvars, used0, fbvars>>

\* the server-local date advances
Midnight ==
    /\ today < NDays
    /\ today' = today + 1
    /\ UNCHANGED <<dbvars, UsageLimit, Analysis, reqvars, used0, fbvars>>

(* ----------------------- app/routers/analyze.py ----------------------- *)
\* variant: the exception is reported but the coroutine is not left
Fail_not_raised(r, exc) ==
    /\ response' = [response EXCEPT ![r] = exc]
    /\ steps' = [steps EXCEPT ![r] = Append(@, "Error")]
    /\ UNCHANGED pc

\* a request ends with an HTTPException turned into an error response
Fail(r, exc) ==
    /\ response' = [response EXCEPT ![r] = exc]
    /\ steps' = [steps EXCEPT ![r] = Append(@, "Error")]
    /\ pc' = [pc EXCEPT ![r] = "done"]

\* Analysis(**analysis_doc): the declared fields of the model
AnalysisModel(doc) ==
    [id |-> doc.id, slideImage |-> doc.slideImage, organ |-> doc.organ,
     clinicalContext |-> doc.clinicalContext, model |-> doc.model,
     observation |-> doc.observation,
     preliminaryDiagnosis |-> doc.preliminaryDiagnosis,
     confidenceLevel |-> doc.confidenceLevel, disclaimer |-> doc.disclaimer,
     createdAt |-> doc.createdAt]

\* analyze_slide up to the first await (find_one of the quota check)
analyze_slide(r, m) ==
    /\ app = "running"
    /\ pc[r] = "idle"
    /\ \A q \in Reqs : q < r => pc[q] # "idle"    \* slots are taken in order
    /\ model' = [model EXCEPT ![r] = m]
    /\ usage_at_submit' = [usage_at_submit EXCEPT ![r] = UsageLimit[today]]
    /\ IF get_database = "None"
       THEN /\ response' = [response EXCEPT ![r] =
                   HTTPException(500, "Database client not initialized")]
            /\ steps' = [steps EXCEPT ![r] = <<"Received", "Error">>]
            /\ pc' = [pc EXCEPT ![r] = "done"]
            /\ UNCHANGED today_str
       ELSE /\ today_str' = [today_str EXCEPT ![r] = today]
            /\ steps' = [steps EXCEPT ![r] = <<"Received">>]
            /\ pc' = [pc EXCEPT ![r] = "check"]
            /\ UNCHANGED response
    /\ UNCHANGED <<dbvars, today, UsageLimit, Analysis, analysis_doc,
                   adapter_calls, inc_applied, inc_failed, used0, fbvars>>

\* check_and_get_usage_limit from the completion of find_one; on success
\* analyze_slide goes on to await slideImage.read()
check_and_get_usage_limit(r, find_ok) ==
    /\ pc[r] = "check"
    /\ LET exc == IF find_ok
                  THEN QuotaOutcome(UsageLimit[today_str[r]], model[r])
                  ELSE HTTPException(500, StoreErrorDetail)
       IN  IF exc # None
           THEN Fail(r, exc)
           ELSE /\ steps' = [steps EXCEPT ![r] = Append(@, "QuotaChecked")]
                /\ pc' = [pc EXCEPT ![r] = "read"]
                /\ UNCHANGED response
    /\ UNCHANGED <<dbvars, today, UsageLimit, Analysis, model, today_str,
                   analysis_doc, adapter_calls, inc_applied, inc_failed,
                   usage_at_submit, used0, fbvars>>

\* analyze_slide from the completion of slideImage.read() to the await of
\* insert_one: builds analysis_doc and calls the provider of the tier (the
\* provider call does not yield to the event loop)
call_analysis(r, out, img, org, ctx) ==
    /\ pc[r] = "read"
    /\ IF out = "read_raises"
       THEN /\ Fail(r, HTTPException(500, "Database operation failed"))
            /\ UNCHANGED <<analysis_doc, adapter_calls>>
       ELSE /\ adapter_calls' = [adapter_calls EXCEPT ![r] = @ + 1]
            /\ IF out = "provider_raises"
               THEN /\ Fail(r, HTTPException(500, "Database operation failed"))
                    /\ UNCHANGED analysis_doc
               ELSE /\ analysis_doc' = [analysis_doc EXCEPT ![r] =
                           [slideImage |-> b64encode(img), organ |-> org,
                            clinicalContext |-> ctx, model |-> model[r],
                            createdAt |-> today,
                            observation |-> ProviderResult(model[r]).observation,
                            preliminaryDiagnosis |-> ProviderResult(model[r]).preliminaryDiagnosis,
                            confidenceLevel |-> ProviderResult(model[r]).confidenceLevel,
                            disclaimer |-> ProviderResult(model[r]).disclaimer]]
                    /\ steps' = [steps EXCEPT ![r] = Append(@, "ProviderCalled")]
                    /\ pc' = [pc EXCEPT ![r] = "insert"]
                    /\ UNCHANGED response
    /\ UNCHANGED <<dbvars, today, UsageLimit, Analysis, model, today_str,
                   inc_applied, inc_failed, usage_at_submit, used0, fbvars>>

\* the n-th ObjectId the driver generates
NewObjectId(coll) == OidBase + Len(coll) + 1

\* analyze_slide from the completion of insert_one to the await of
\* update_one inside increment_usage_count
insert_one(r, insert_ok) ==
    /\ pc[r] = "insert"
    /\ IF insert_ok
       THEN LET oid == NewObjectId(Analysis)
                doc == analysis_doc[r]
            IN  /\ Analysis' = Append(Analysis,
                       [_id |-> oid, feedback |-> None] @@ doc)
                /\ analysis_doc' = [analysis_doc EXCEPT ![r] =
                       [_id |-> oid, id |-> str_oid(oid)] @@ doc]
                /\ today_str' = [today_str EXCEPT ![r] = today]
                /\ steps' = [steps EXCEPT ![r] = Append(@, "Persisted")]
                /\ pc' = [pc EXCEPT ![r] = "inc"]
                /\ UNCHANGED response
       ELSE /\ Fail(r, HTTPException(500, "Database operation failed"))
            /\ UNCHANGED <<Analysis, analysis_doc, today_str>>
    /\ UNCHANGED <<dbvars, today, UsageLimit, model, adapter_calls,
                   inc_applied, inc_failed, usage_at_submit, used0, fbvars>>

\* variant: the exception of update_one reaches analyze_slide's handler
increment_usage_count_raises(r, update_ok) ==
    /\ pc[r] = "inc"
    /\ IF update_ok
       THEN /\ UsageLimit' = UpdateUsage(UsageLimit, today_str[r], model[r])
            /\ inc_applied' = [inc_applied EXCEPT ![r] =
                   IF UsageLimit[today_str[r]] # None
                   THEN <<today_str[r], model[r]>> ELSE <<>>]
            /\ response' = [response EXCEPT ![r] =
                   ApiResponse("Analysis stored successfully",
                               AnalysisModel(analysis_doc[r]))]
            /\ steps' = [steps EXCEPT ![r] = @ \o <<"QuotaIncremented", "Responded">>]
            /\ pc' = [pc EXCEPT ![r] = "done"]
            /\ UNCHANGED inc_failed
       ELSE /\ inc_failed' = [inc_failed EXCEPT ![r] = TRUE]
            /\ Fail(r, HTTPException(500, "Database operation failed"))
            /\ UNCHANGED <<UsageLimit, inc_applied>>
    /\ UNCHANGED <<dbvars, today, Analysis, model, today_str, analysis_doc,
                   adapter_calls, usage_at_submit, used0, fbvars>>

\* increment_usage_count from the completion of update_one (an exception is
\* printed and swallowed), then analyze_slide to its return
increment_usage_count(r, update_ok) ==
    /\ pc[r] = "inc"
    /\ IF update_ok
       THEN /\ UsageLimit' = UpdateUsage(UsageLimit, today_str[r], model[r])
            /\ inc_applied' = [inc_applied EXCEPT ![r] =
                   IF UsageLimit[today_str[r]] # None
                   THEN <<today_str[r], model[r]>> ELSE <<>>]
            /\ UNCHANGED inc_failed
       ELSE /\ inc_failed' = [inc_failed EXCEPT ![r] = TRUE]
            /\ UNCHANGED <<UsageLimit, inc_applied>>
    /\ response' = [response EXCEPT ![r] =
           ApiResponse("Analysis stored successfully", AnalysisModel(analysis_doc[r]))]
    /\ steps' = [steps EXCEPT ![r] = @ \o <<"QuotaIncremented", "Responded">>]
    /\ pc' = [pc EXCEPT ![r] = "done"]
    /\ UNCHANGED <<dbvars, today, Analysis, model, today_str, analysis_doc,
                   adapter_calls, usage_at_submit, used0, fbvars>>

(* ----------------------- app/routers/feedback.py ---------------------- *)
\* the field n of the next request
NextN == IF request = None THEN 0 ELSE 1 - request.n

\* the request bodies: FeedbackRequest(rating, notes), or no body at all
FeedbackBodies ==
    {None} \cup {[rating |-> 1, notes |-> "disagree"], [rating |-> 5, notes |-> "agree"]}

ToUpper(s) ==
    [i \in DOMAIN s |->
        IF \E k \in 1..16 : HexDigits[k] = s[i]
        THEN HexUpper[CHOOSE k \in 1..16 : HexDigits[k] = s[i]]
        ELSE s[i]]
ToLower(s) ==
    [i \in DOMAIN s |->
        IF \E k \in 1..16 : HexUpper[k] = s[i]
        THEN HexDigits[CHOOSE k \in 1..16 : HexUpper[k] = s[i]]
        ELSE s[i]]

\* the values of the query parameter id: the first two identifiers the
\* store hands out and one it never hands out, the first one in upper case,
\* and two texts that are no ObjectId (too short, not hexadecimal)
IdInputs ==
    {str_oid(OidBase + k) : k \in 0..2}
        \cup {ToUpper(str_oid(OidBase + 1))}
        \cup {Tail(str_oid(OidBase + 1)),
              [str_oid(OidBase + 1) EXCEPT ![1] = "g"]}

\* update_one({"_id": oid}, {"$set": {"feedback": fb}}): the documents after
SetFeedback(coll, oid, fb) ==
    [i \in DOMAIN coll |->
        IF coll[i]._id = oid /\ \A j \in 1..(i - 1) : coll[j]._id # oid
        THEN [coll[i] EXCEPT !.feedback = fb]
        ELSE coll[i]]

\* result.matched_count of that update_one
MatchedCount(coll, oid) ==
    IF \E i \in DOMAIN coll : coll[i]._id = oid THEN 1 ELSE 0

\* str(exc) of a starlette HTTPException, wrapped by the handler's except
WrappedDetail(exc) ==
    "Database operation failed: " \o ToString(exc.code) \o ": " \o exc.message

\* the response of submit_feedback and the Analysis collection after it;
\* update_ok is the outcome of update_one when it is reached
FeedbackResult(coll, db, id, feedback, update_ok) ==
    IF db = "None"
    THEN [resp |-> HTTPException(500, "Database client not initialized"),
          coll |-> coll, stored |-> FALSE, calls |-> 0]
    ELSE IF ~ObjectIdValid(id)
    THEN [resp |-> HTTPException(400, "Invalid analysis ID format"),
          coll |-> coll, stored |-> FALSE, calls |-> 0]
    ELSE IF feedback = None       \* feedback.rating on None, inside the try
    THEN [resp |-> HTTPException(500,
                      "Database operation failed: 'NoneType' object has no attribute 'rating'"),
          coll |-> coll, stored |-> FALSE, calls |-> 0]
    ELSE IF ~update_ok
    THEN [resp |-> HTTPException(500, "Database operation failed: store error"),
          coll |-> coll, stored |-> FALSE, calls |-> 1]
    ELSE IF MatchedCount(coll, ObjectId(id)) = 0
    THEN \* the HTTPException(404) is raised inside the try and is
         \* caught by its "except Exception"
         [resp |-> HTTPException(500,
                      WrappedDetail(HTTPException(404, "Analysis not found"))),
          coll |-> coll, stored |-> FALSE, calls |-> 1]
    ELSE [resp |-> ApiResponse("Feedback submitted successfully",
                      [id |-> id, rating |-> feedback.rating, notes |-> feedback.notes]),
          coll |-> SetFeedback(coll, ObjectId(id),
                      [rating |-> feedback.rating, notes |-> feedback.notes]),
          stored |-> TRUE, calls |-> 1]

submit_feedback(id, feedback, update_ok) ==
    /\ app = "running"
    /\ LET res == FeedbackResult(Analysis, get_database, id, feedback, update_ok)
       IN  /\ request' = [n |-> NextN, path |-> "/feedback", id |-> id,
                          feedback |-> feedback,
                          store_calls |-> res.calls,
                          store_raised |-> res.calls = 1 /\ ~update_ok]
           /\ reply' = res.resp
           /\ Analysis' = res.coll
           /\ fb_last' = IF res.stored
                         THEN (ToLower(id) :> feedback) @@ fb_last
                         ELSE fb_last
    /\ UNCHANGED <<dbvars, today, UsageLimit, reqvars, used0>>

(* ----------------------- app/routers/history.py ----------------------- *)
\* variant: the feedback of a document is not read
HistoryItem_without_feedback(doc) ==
    [id |-> str_oid(doc._id), slideImage |-> doc.slideImage, organ |-> doc.organ,
     clinicalContext |-> doc.clinicalContext, model |-> doc.model,
     observation |-> doc.observation,
     preliminaryDiagnosis |-> doc.preliminaryDiagnosis,
     confidenceLevel |-> doc.confidenceLevel, disclaimer |-> doc.disclaimer,
     createdAt |-> ToString(doc.createdAt),
     feedback |-> None]

\* HistoryItem(...) of one document (createdAt is set on every document
\* analyze_slide inserts)
HistoryItem(doc) ==
    [id |-> str_oid(doc._id), slideImage |-> doc.slideImage, organ |-> doc.organ,
     clinicalContext |-> doc.clinicalContext, model |-> doc.model,
     observation |-> doc.observation,
     preliminaryDiagnosis |-> doc.preliminaryDiagnosis,
     confidenceLevel |-> doc.confidenceLevel, disclaimer |-> doc.disclaimer,
     createdAt |-> ToString(doc.createdAt),
     feedback |-> doc.feedback]

\* the response of get_history; find_ok is the outcome of the cursor
HistoryResult(coll, db, find_ok) ==
    IF db = "None"
    THEN HTTPException(500, "Database client not initialized")
    ELSE IF ~find_ok
    THEN HTTPException(500, "Database operation failed: store error")
    ELSE ApiResponse("History retrieved successfully",
                     [i \in DOMAIN coll |-> HistoryItem(coll[i])])

get_history(find_ok) ==
    /\ app = "running"
    /\ request' = [n |-> NextN, path |-> "/history", store_raised |-> ~find_ok]
    /\ reply' = HistoryResult(Analysis, get_database, find_ok)
    /\ UNCHANGED <<dbvars, today, UsageLimit, Analysis, reqvars, used0, fb_last>>

(* --------------------------- specification ---------------------------- *)
Submit == \E r \in Reqs, m \in Models : analyze_slide(r, m)
CheckQuota == \E r \in Reqs, ok \in BOOLEAN : check_and_get_usage_limit(r, ok)
Analyze ==
    \E r \in Reqs, out \in AnalyzeOutcomes, img \in Images, org \in Organs,
       ctx \in Contexts : call_analysis(r, out, img, org, ctx)
Persist == \E r \in Reqs, ok \in BOOLEAN : insert_one(r, ok)
Increment == \E r \in Reqs, ok \in BOOLEAN : increment_usage_count(r, ok)

(* The requests of one day, served concurrently.                           *)
InitToday ==
    /\ Init
    /\ \A d \in Days : d # today => UsageLimit[d] # None

Next ==
    \/ Startup
    \/ Shutdown
    \/ Submit
    \/ CheckQuota
    \/ Analyze
    \/ Persist
    \/ Increment

Spec == InitToday /\ [][Next]_vars

(* Submissions served one after another on one day, with the store, the    *)
(* upload and the provider all answering.                                  *)
SubmitSeq ==
    \E r \in Reqs, m \in Models :
        /\ \A q \in Reqs : ~InFlight(q)
        /\ analyze_slide(r, m)
CheckQuotaOk == \E r \in Reqs : check_and_get_usage_limit(r, TRUE)
AnalyzeOk ==
    \E r \in Reqs, img \in Images, org \in Organs, ctx \in Contexts :
        call_analysis(r, "ok", img, org, ctx)
PersistOk == \E r \in Reqs : insert_one(r, TRUE)
IncrementOk == \E r \in Reqs : increment_usage_count(r, TRUE)

NextSeq ==
    \/ Startup
    \/ Shutdown
    \/ SubmitSeq
    \/ CheckQuotaOk
    \/ AnalyzeOk
    \/ PersistOk
    \/ IncrementOk

SpecSeq == Init /\ [][NextSeq]_vars

(* Submissions served one after another while the date advances.          *)
NextDays ==
    \/ Startup
    \/ Shutdown
    \/ Midnight
    \/ SubmitSeq
    \/ CheckQuota
    \/ Analyze
    \/ Persist
    \/ Increment

SpecDays == Init /\ [][NextDays]_vars

(* Feedback and history requests against a store that submissions, served  *)
(* one after another, fill.                                                *)
Feedback ==
    \E id \in IdInputs, fb \in FeedbackBodies, ok \in BOOLEAN :
        submit_feedback(id, fb, ok)
History == \E ok \in BOOLEAN : get_history(ok)

\* the service is started on a day whose quota is untouched
InitFb ==
    /\ Init
    /\ \A d \in Days : UsageLimit[d] # None
    /\ UsageLimit[1].jrLimit = MaxLimit /\ UsageLimit[1].srLimit = MaxLimit

NextFb ==
    \/ Startup
    \/ Shutdown
    \/ SubmitSeq
    \/ CheckQuotaOk
    \/ AnalyzeOk
    \/ PersistOk
    \/ IncrementOk
    \/ Feedback
    \/ History

SpecFb == InitFb /\ [][NextFb]_vars

(* The gateway of app/db/mongo.py called in any order, beside the lifespan *)
(* and submissions served one after another.                               *)
Connect ==
    /\ connect_to_mongo
    /\ UNCHANGED <<app, today, UsageLimit, Analysis, reqvars, used0, fbvars>>
Disconnect ==
    /\ close_mongo_connection
    /\ UNCHANGED <<app, today, UsageLimit, Analysis, reqvars, used0, fbvars>>

NextGateway ==
    \/ Connect
    \/ Disconnect
    \/ Startup
    \/ Shutdown
    \/ SubmitSeq
    \/ CheckQuota
    \/ Analyze
    \/ Persist
    \/ Increment

SpecGateway == InitToday /\ [][NextGateway]_vars

(* ============================ properties ============================== *)
Done(r) == pc[r] = "done"
Range(f) == {f[i] : i \in DOMAIN f}
Last(s) == s[Len(s)]
Front(s) == SubSeq(s, 1, Len(s) - 1)
IsPrefix(s, t) == Len(s) <= Len(t) /\ SubSeq(t, 1, Len(s)) = s

Used(doc, m) == IF m = "JR" THEN doc.jrUsed ELSE doc.srUsed
Limit(doc, m) == IF m = "JR" THEN doc.jrLimit ELSE doc.srLimit

\* the documents of Analysis that request r inserted
RecordsOf(r) ==
    IF analysis_doc[r] = None \/ "_id" \notin DOMAIN analysis_doc[r]
    THEN {}
    ELSE {i \in DOMAIN Analysis : Analysis[i]._id = analysis_doc[r]._id}

\* requests whose $inc modified the tier-m counter of date d
Incremented(d, m) == {r \in Reqs : inc_applied[r] = <<d, m>>}

\* request r was submitted while its tier was at or over the limit
OverAtSubmit(r) ==
    /\ pc[r] # "idle"
    /\ usage_at_submit[r] # None
    /\ Used(usage_at_submit[r], model[r]) >= Limit(usage_at_submit[r], model[r])

\* the quota check of request r has returned or raised
Checked(r) == pc[r] \notin {"idle", "check"}

(* C1: a submission for a tier whose Used >= Limit in today's record is     *)
(* rejected by the quota check with status 429 (status 500 only when the   *)
(* lookup itself raised) before any provider call: the adapter is never    *)
(* invoked for it, it persists no record and increments no counter.        *)
C1_RejectedBeforeProvider ==
    \A r \in Reqs :
        OverAtSubmit(r) /\ Checked(r) =>
            /\ Done(r)
            /\ steps[r] = <<"Received", "Error">>
            /\ response[r].status = FALSE
            /\ response[r].code = 429 \/ response[r] = HTTPException(500, StoreErrorDetail)
            /\ adapter_calls[r] = 0
            /\ RecordsOf(r) = {}
            /\ inc_applied[r] = <<>> /\ ~inc_failed[r]

C1_Witness ==
    \E r \in Reqs :
        /\ OverAtSubmit(r) /\ Done(r)
        /\ response[r].code = 429
        /\ \E q \in Reqs : q # r /\ Done(q) /\ response[q].status

(* C2: the increment is atomic but the check-then-increment pair is not:   *)
(* every applied increment adds exactly one to its counter, none is lost,  *)
(* so when two requests of one tier that both passed the check on a day    *)
(* with one unit left both increment, Used ends above Limit.               *)
C2_IncrementsNeverLost ==
    \A d \in Days : \A m \in Models :
        UsageLimit[d] # None =>
            /\ Used(UsageLimit[d], m) = Used(used0[d], m) + Cardinality(Incremented(d, m))
            /\ ( /\ Used(used0[d], m) + 1 = Limit(used0[d], m)
                 /\ Cardinality(Incremented(d, m)) >= 2 )
               => Used(UsageLimit[d], m) > Limit(UsageLimit[d], m)

C2_Witness ==
    \E r \in Reqs, q \in Reqs :
        /\ r # q /\ model[r] = model[q]
        /\ Done(r) /\ Done(q) /\ response[r].status /\ response[q].status
        /\ usage_at_submit[r] # None /\ usage_at_submit[r] = usage_at_submit[q]
        /\ Used(usage_at_submit[r], model[r]) + 1 = Limit(usage_at_submit[r], model[r])
        /\ \E d \in Days :
              /\ inc_applied[r] = <<d, model[r]>> /\ inc_applied[q] = <<d, model[r]>>
              /\ usage_at_submit[r] = used0[d]
              /\ Used(UsageLimit[d], model[r]) > Limit(UsageLimit[d], model[r])

WorkflowSteps ==
    <<"Received", "QuotaChecked", "ProviderCalled", "Persisted",
      "QuotaIncremented", "Responded">>

\* the steps of r are an initial part of the workflow, possibly left by the
\* error exit
StepsInOrder(r) ==
    \/ IsPrefix(steps[r], WorkflowSteps)
    \/ /\ Len(steps[r]) >= 2
       /\ Last(steps[r]) = "Error"
       /\ IsPrefix(Front(steps[r]), WorkflowSteps)
       /\ Len(Front(steps[r])) < Len(WorkflowSteps)

\* the position of the coroutine agrees with the steps passed
StepsMatchPc(r) ==
    /\ pc[r] = "idle" <=> steps[r] = <<>>
    /\ pc[r] = "check" <=> steps[r] = SubSeq(WorkflowSteps, 1, 1)
    /\ pc[r] = "read" <=> steps[r] = SubSeq(WorkflowSteps, 1, 2)
    /\ pc[r] = "insert" <=> steps[r] = SubSeq(WorkflowSteps, 1, 3)
    /\ pc[r] = "inc" <=> steps[r] = SubSeq(WorkflowSteps, 1, 4)
    /\ Done(r) <=> (steps[r] # <<>> /\ Last(steps[r]) \in {"Error", "Responded"})

\* what a request has done to the stores is what its steps say
StepsMatchEffects(r) ==
    /\ response[r] # None <=> Done(r)
    /\ adapter_calls[r] <= 1
    /\ adapter_calls[r] = 1 => "QuotaChecked" \in Range(steps[r])
    /\ "ProviderCalled" \in Range(steps[r]) => adapter_calls[r] = 1
    /\ "ProviderCalled" \notin Range(steps[r]) => analysis_doc[r] = None
    /\ "Persisted" \notin Range(steps[r]) =>
           RecordsOf(r) = {} /\ inc_applied[r] = <<>> /\ ~inc_failed[r]
    /\ "Persisted" \in Range(steps[r]) => Cardinality(RecordsOf(r)) = 1
    /\ "QuotaIncremented" \notin Range(steps[r]) =>
           inc_applied[r] = <<>> /\ ~inc_failed[r]

ErrorExit(r) == steps[r] # <<>> /\ Last(steps[r]) = "Error"

(* C6 as stated: the steps are taken in workflow order, and a failure at   *)
(* ANY step, the usage increment included, ends the request with an error  *)
(* response and none of the later steps.                                   *)
C6_AnyFailureEndsRequest ==
    /\ Len(Analysis) = Cardinality({r \in Reqs : "Persisted" \in Range(steps[r])})
    /\ \A r \in Reqs :
        /\ StepsInOrder(r) /\ StepsMatchPc(r) /\ StepsMatchEffects(r)
        /\ Done(r) =>
              IF ErrorExit(r) \/ inc_failed[r]
              THEN ~response[r].status /\ "Responded" \notin Range(steps[r])
              ELSE response[r].status /\ steps[r] = WorkflowSteps

(* C6 amended: the steps are taken in workflow order without skipping or   *)
(* repeating; a failure of the quota check, the upload read, the provider  *)
(* or the insert ends the request with an error response and none of the   *)
(* later steps (no record after a provider failure, no increment after a   *)
(* provider or insert failure); a failure of the usage increment does not  *)
(* end the request: it still passes QuotaIncremented and Responded.        *)
C6_StepsInOrder ==
    /\ Len(Analysis) = Cardinality({r \in Reqs : "Persisted" \in Range(steps[r])})
    /\ \A r \in Reqs :
        /\ StepsInOrder(r) /\ StepsMatchPc(r) /\ StepsMatchEffects(r)
        /\ Done(r) =>
              IF ErrorExit(r)
              THEN /\ ~response[r].status /\ response[r].code \in {429, 500}
                   /\ Len(steps[r]) <= 4
                   /\ ~inc_failed[r]
              ELSE response[r].status /\ response[r].code = 200 /\ steps[r] = WorkflowSteps

C6_Witness ==
    \E r \in Reqs, q \in Reqs :
        /\ Done(r) /\ steps[r] = <<"Received", "QuotaChecked", "ProviderCalled", "Error">>
        /\ Done(q) /\ steps[q] = WorkflowSteps /\ inc_failed[q]

\* the record of Analysis that request r's response carries
ResponseIsStoredRecord(r) ==
    \E i \in RecordsOf(r) :
        LET rec == Analysis[i]
            d == response[r].data
        IN  /\ d.id = str_oid(rec._id)
            /\ d.slideImage = rec.slideImage /\ d.organ = rec.organ
            /\ d.clinicalContext = rec.clinicalContext /\ d.model = rec.model
            /\ d.observation = rec.observation
            /\ d.preliminaryDiagnosis = rec.preliminaryDiagnosis
            /\ d.confidenceLevel = rec.confidenceLevel
            /\ d.disclaimer = rec.disclaimer /\ d.createdAt = rec.createdAt

(* C7: when the usage increment fails after the record was persisted, the  *)
(* request still answers with the success envelope carrying the stored     *)
(* record and its identifier, the record stays in the store exactly once,  *)
(* and the step in which the increment fails changes no counter and no     *)
(* record.                                                                 *)
C7_IncrementFailureSwallowed ==
    /\ [](\A r \in Reqs :
            inc_failed[r] =>
                /\ Done(r)
                /\ response[r].status /\ response[r].code = 200
                /\ Cardinality(RecordsOf(r)) = 1
                /\ ResponseIsStoredRecord(r)
                /\ inc_applied[r] = <<>>)
    /\ [][\A r \in Reqs :
            ~inc_failed[r] /\ inc_failed'[r] =>
                UsageLimit' = UsageLimit /\ Analysis' = Analysis]_vars

C7_Witness ==
    \E r \in Reqs :
        /\ inc_failed[r] /\ Done(r) /\ response[r].status
        /\ UsageLimit[today_str[r]] # None
        /\ Used(UsageLimit[today_str[r]], model[r]) = Used(used0[today_str[r]], model[r])
        /\ \E i \in DOMAIN Analysis : Analysis[i].model = model[r]

OtherTier(m) == IF m = "JR" THEN "SR" ELSE "JR"
IncrementStep(r) == pc[r] = "inc" /\ pc'[r] = "done"

(* C9: the step that completes incrementUsage(tier) either changes nothing *)
(* in UsageLimit or adds exactly 1 to the tier's Used field of the record  *)
(* of the date it computed; the other tier's Used, both Limits and every   *)
(* other date's record are unchanged; no counter ever decreases, and no    *)
(* other step changes UsageLimit.                                          *)
C9_IncrementFrame ==
    [][/\ \A r \in Reqs :
            IncrementStep(r) =>
                LET d == today_str[r]
                    m == model[r]
                IN  /\ \A e \in Days : e # d => UsageLimit'[e] = UsageLimit[e]
                    /\ UsageLimit[d] = None => UsageLimit'[d] = None
                    /\ UsageLimit[d] # None =>
                          /\ UsageLimit'[d] # None
                          /\ UsageLimit'[d].date = UsageLimit[d].date
                          /\ UsageLimit'[d].jrLimit = UsageLimit[d].jrLimit
                          /\ UsageLimit'[d].srLimit = UsageLimit[d].srLimit
                          /\ Used(UsageLimit'[d], OtherTier(m)) = Used(UsageLimit[d], OtherTier(m))
                          /\ \/ Used(UsageLimit'[d], m) = Used(UsageLimit[d], m)
                             \/ Used(UsageLimit'[d], m) = Used(UsageLimit[d], m) + 1
       /\ (\A r \in Reqs : ~IncrementStep(r)) => UsageLimit' = UsageLimit
      ]_vars

C9_Witness ==
    \E r \in Reqs, q \in Reqs :
        /\ \A d \in Days : UsageLimit[d] # None
        /\ inc_applied[r] # <<>> /\ Done(r)
        /\ Used(UsageLimit[today_str[r]], model[r]) = Used(used0[today_str[r]], model[r]) + 1
        /\ inc_failed[q] /\ Done(q) /\ model[q] # model[r]

\* request r was submitted on a date that has no UsageLimit document
AbsentAtSubmit(r) == pc[r] # "idle" /\ usage_at_submit[r] = None

(* C10: a submission made on a date without a UsageLimit record ends in a  *)
(* status-500 response raised by the quota check (the dereference of the   *)
(* absent record, or the lookup itself raising) before any provider call   *)
(* and without persisting a record; no step ever creates a UsageLimit      *)
(* record, so the date stays without one.                                  *)
C10_AbsentRecordFails ==
    /\ [](\A r \in Reqs :
            AbsentAtSubmit(r) /\ Checked(r) =>
                /\ Done(r)
                /\ steps[r] = <<"Received", "Error">>
                /\ \/ response[r] = HTTPException(500, AttributeErrorDetail)
                   \/ response[r] = HTTPException(500, StoreErrorDetail)
                /\ adapter_calls[r] = 0
                /\ RecordsOf(r) = {}
                /\ inc_applied[r] = <<>>)
    /\ [][\A d \in Days : UsageLimit[d] = None => UsageLimit'[d] = None]_vars

C10_Witness ==
    \E r \in Reqs, q \in Reqs :
        /\ r # q /\ model[r] # model[q]
        /\ AbsentAtSubmit(r) /\ AbsentAtSubmit(q)
        /\ Done(r) /\ response[r] = HTTPException(500, AttributeErrorDetail)
        /\ Done(q) /\ response[q] = HTTPException(500, AttributeErrorDetail)
        /\ Analysis = <<>>
        /\ UsageLimit[today] = None

(* C3 (SpecSeq): with submissions served one after another on one day and  *)
(* every call succeeding, a submission made at Used = Limit - 1 succeeds   *)
(* and leaves Used = Limit, a submission made at Used >= Limit is rejected *)
(* with status 429 and leaves Used as it was, and a counter that starts at *)
(* or below its Limit never exceeds it.                                    *)
C3_SequentialQuota ==
    /\ \A r \in Reqs :
          (Done(r) /\ usage_at_submit[r] # None) =>
              LET u == usage_at_submit[r]
                  m == model[r]
                  now == UsageLimit[today_str[r]]
              IN  /\ Used(u, m) + 1 = Limit(u, m) =>
                        /\ response[r].status /\ response[r].code = 200
                        /\ Used(now, m) = Limit(now, m)
                  /\ Used(u, m) >= Limit(u, m) =>
                        /\ response[r] = HTTPException(429, m \o " model usage limit exceeded for today")
                        /\ Used(now, m) = Used(u, m)
    /\ \A d \in Days : \A m \in Models :
          (UsageLimit[d] # None /\ Used(used0[d], m) <= Limit(used0[d], m)) =>
              Used(UsageLimit[d], m) <= Limit(UsageLimit[d], m)

C3_Witness ==
    \E r \in Reqs, q \in Reqs :
        /\ r < q /\ model[r] = model[q]
        /\ Done(r) /\ response[r].status
        /\ Used(usage_at_submit[r], model[r]) + 1 = Limit(usage_at_submit[r], model[r])
        /\ Done(q) /\ response[q].code = 429
        /\ Used(usage_at_submit[q], model[q]) = Limit(usage_at_submit[q], model[q])
        /\ Used(UsageLimit[today], model[q]) = Limit(UsageLimit[today], model[q])

HexChars ==
    {"0","1","2","3","4","5","6","7","8","9",
     "a","b","c","d","e","f","A","B","C","D","E","F"}

\* id is written as a store identifier: 24 hexadecimal characters
WellFormedId(id) ==
    Len(id) = ObjectIdHexLen /\ \A i \in DOMAIN id : id[i] \in HexChars

\* some stored record has the identifier id (in either case of the letters)
IdIsStored(id) ==
    \E i \in DOMAIN Analysis : str_oid(Analysis[i]._id) = ToLower(id)

\* this step serves a request to the given path
Serves(path) == request' # request /\ request'.path = path

(* C4 (SpecFb): a feedback submission that carries a body, whose id is a   *)
(* well-formed identifier of no stored record and whose store call         *)
(* answers, is answered with status 404 (NotFound) and changes no record.  *)
C4_UnknownIdNotFound ==
    [][( /\ Serves("/feedback")
         /\ WellFormedId(request'.id) /\ ~IdIsStored(request'.id)
         /\ request'.feedback # None /\ ~request'.store_raised )
       => /\ reply'.code = 404 /\ ~reply'.status
          /\ Analysis' = Analysis
      ]_vars

(* C5 (SpecFb): a feedback submission whose id is not a well-formed        *)
(* identifier is answered with status 400 (InvalidIdentifier); the step    *)
(* issues no store call and changes no record.                             *)
C5_MalformedIdRejected ==
    [][( Serves("/feedback") /\ ~WellFormedId(request'.id) )
       => /\ reply' = HTTPException(400, "Invalid analysis ID format")
          /\ request'.store_calls = 0
          /\ Analysis' = Analysis
      ]_vars

C5_Witness ==
    /\ request # None /\ request.path = "/feedback"
    /\ request.feedback # None
    /\ Len(Analysis) >= 1
    /\ request.id = Tail(str_oid(Analysis[1]._id))
    /\ reply.code = 400
    /\ request.store_calls = 0

(* C8 (SpecFb): a history request the store answers returns exactly one    *)
(* entry per stored record, in store order and with the record's           *)
(* identifier; the entry's feedback is null when no feedback submission    *)
(* for that identifier has succeeded, and otherwise the rating and notes   *)
(* of the last one that succeeded.                                         *)
C8_HistoryShowsFeedback ==
    [][( Serves("/history") /\ ~request'.store_raised )
       => /\ reply'.status /\ reply'.code = 200
          /\ LET items == reply'.data
             IN  /\ Len(items) = Len(Analysis')
                 /\ \A i \in DOMAIN items : items[i].id = str_oid(Analysis'[i]._id)
                 /\ \A i \in DOMAIN items : \A j \in DOMAIN items :
                        i # j => items[i].id # items[j].id
                 /\ \A i \in DOMAIN items :
                        items[i].feedback =
                            IF items[i].id \in DOMAIN fb_last'
                            THEN [rating |-> fb_last'[items[i].id].rating,
                                  notes |-> fb_last'[items[i].id].notes]
                            ELSE None
      ]_vars

C8_Witness ==
    /\ request # None /\ request.path = "/history" /\ reply.status
    /\ Len(reply.data) >= 2
    /\ \E i \in DOMAIN reply.data : \E j \in DOMAIN reply.data :
          /\ reply.data[i].feedback = None
          /\ reply.data[j].feedback # None
          /\ reply.data[j].id \in DOMAIN fb_last
          /\ reply.data[j].feedback.rating = fb_last[reply.data[j].id].rating

(* ------------------------------ C11 ----------------------------------- *)
ClientHeld == mongo_client # "None"

\* the calls that the gateway answers with no change: no step that leaves
\* the client held, or leaves it absent, changes the handle
GatewayCallsIdempotent ==
    [][(ClientHeld <=> ClientHeld') => UNCHANGED <<mongo_client, mongo_db>>]_vars

\* C11: after any sequence of connect() and disconnect() calls,
\* currentDatabase() returns a database handle if and only if a client is
\* currently held: get_database() is None exactly while mongo_client is None
\* (so it is None before the first connect and again after a disconnect).
C11_HandleIffClientHeld == (get_database # "None") <=> ClientHeld

\* the state the code reaches instead: no client, and a handle of the
\* closed client still returned
C11_StaleHandle == ~ClientHeld /\ get_database # "None"

====
